---- MODULE Spec2Model ----
(***************************************************************************)
(* Model of backend/server.py: the document risk analysis pipeline         *)
(* (analyze_document, analyze_document_with_ai, extract_text_from_pdf)     *)
(* and the storage routes (get_analyses, get_analysis, delete_analysis).   *)
(*                                                                         *)
(* Text is a sequence of one-character strings.  A float with two          *)
(* decimals is the integer number of hundredths.                           *)
(***************************************************************************)
EXTENDS Integers, Sequences, FiniteSets, TLC

VARIABLES
    store,      \* db.document_analyses: the stored documents, in insertion order
    req,        \* the analyze_document request in flight
    uuids,      \* how many uuids uuid.uuid4() has handed out
    resp,       \* the answer of the last get_analyses / get_analysis / delete_analysis
    returned,   \* the analyses analyze_document returned and no delete removed
    call,       \* one call of analyze_document_with_ai: the AI's answer, the result
    prev        \* how the call before this one failed, if it did

vars == <<store, req, uuids, resp, returned, call, prev>>

(***************************************************************************)
(* Python string primitives                                                *)
(***************************************************************************)

\* str.isspace() on the characters the model uses
IsSpace(c) == c \in {" ", "\n", "\t", "\r"}

RECURSIVE LStrip(_)
LStrip(s) ==
    IF s # <<>> /\ IsSpace(Head(s)) THEN LStrip(Tail(s)) ELSE s

RECURSIVE RStrip(_)
RStrip(s) ==
    IF s # <<>> /\ IsSpace(s[Len(s)])
    THEN RStrip(SubSeq(s, 1, Len(s) - 1))
    ELSE s

\* str.strip()
Strip(s) == RStrip(LStrip(s))

\* str.startswith(p)
StartsWith(s, p) == Len(s) >= Len(p) /\ SubSeq(s, 1, Len(p)) = p

\* str.endswith(p)
EndsWith(s, p) ==
    Len(s) >= Len(p) /\ SubSeq(s, Len(s) - Len(p) + 1, Len(s)) = p

\* s[a:-b] for a >= 0, b > 0; empty when the two cuts meet or cross
SliceFromTo(s, a, b) == SubSeq(s, a + 1, Len(s) - b)

\* str.lower() on one character
LowerChar(c) ==
    CASE c = "A" -> "a" [] c = "D" -> "d" [] c = "F" -> "f" [] c = "P" -> "p"
      [] c = "T" -> "t" [] c = "X" -> "x" [] OTHER -> c

\* str.lower()
Lower(s) == [i \in 1..Len(s) |-> LowerChar(s[i])]

(***************************************************************************)
(* The AI service's answer                                                 *)
(*                                                                         *)
(* chat.send_message either raises (err) or returns the text raw.  raw     *)
(* holds the framing characters and the braces of the JSON object; the     *)
(* members written between the braces are carried by doc: the array under  *)
(* "clauses" (when the key is there) and whether "summary",                *)
(* "recommendations" and "document_type" are there.                        *)
(***************************************************************************)

NoKey == "<no key>"
None == "<None>"

\* A JSON value under "risk_score": an integer v ("int"), a string of the
\* decimal digits of v ("numstr"), a string that is no number ("text"),
\* null ("null"), or no such key ("nokey")
Score(t, v) == [t |-> t, v |-> v]

\* The backquote character (U+0060), which a TLA+ string cannot hold
BQ == "<bq>"

FENCE == <<BQ, BQ, BQ>>
FENCE_JSON == FENCE \o <<"j", "s", "o", "n">>

\* len of the fence with the tag json, the left cut of response_text[7:-3]
FenceJsonLen == 7
\* len of the bare fence, the left cut of response_text[3:-3]
FenceLen == 3
\* the right cut of response_text[7:-3] and response_text[3:-3]
FenceTail == 3

\* lines 136-140: strip, then cut a leading fence (with or without the
\* tag json) and the last
\* three characters, whatever they are
StripFence(response) ==
    LET response_text == Strip(response)
    IN  IF StartsWith(response_text, FENCE_JSON)
        THEN SliceFromTo(response_text, FenceJsonLen, FenceTail)
        ELSE IF StartsWith(response_text, FENCE)
        THEN SliceFromTo(response_text, FenceLen, FenceTail)
        ELSE response_text

\* json.loads on the text: "object" for { } and "array" for [ ] with
\* JSON whitespace around and inside, "JSONDecodeError" for anything else
JsonLoads(response_text) ==
    LET u == Strip(response_text)
        inner == SubSeq(u, 2, Len(u) - 1)
    IN  IF Len(u) >= 2 /\ u[1] = "{" /\ u[Len(u)] = "}" /\ Strip(inner) = <<>>
        THEN "object"
        ELSE IF Len(u) >= 2 /\ u[1] = "[" /\ u[Len(u)] = "]"
                /\ Strip(inner) = <<>>
        THEN "array"
        ELSE "JSONDecodeError"

(***************************************************************************)
(* RiskLevel and ClauseAnalysis                                            *)
(***************************************************************************)

\* class RiskLevel(str, Enum): the member values
RiskLevelValues == {"low", "medium", "high"}

\* RiskLevel(value): a lookup by value, ValueError when it is no member
RiskLevelOk(value) == value \in RiskLevelValues

\* Field(..., ge=1, le=10)
ScoreMin == 1
ScoreMax == 10

IntCoerceClamp(score) ==
    CASE score.t \in {"int", "numstr"} ->
            [ok |-> TRUE,
             v |-> IF score.v < ScoreMin THEN ScoreMin
                   ELSE IF score.v > ScoreMax THEN ScoreMax ELSE score.v]
      [] OTHER -> [ok |-> FALSE, v |-> 0]

\* risk_score: int = Field(..., ge=1, le=10): pydantic converts an integer
\* or a string of digits to the integer, then checks the range
IntCoerce(score) ==
    CASE score.t \in {"int", "numstr"} ->
            [ok |-> score.v >= ScoreMin /\ score.v <= ScoreMax, v |-> score.v]
      [] OTHER -> [ok |-> FALSE, v |-> 0]

\* lines 149-155: the clause of one entry of the array; a missing key is
\* KeyError, a level that is no member ValueError, a bad score
\* ValidationError
ClauseError(clause_data) ==
    IF clause_data.clause_text = NoKey THEN "KeyError"
    ELSE IF clause_data.risk_level = NoKey THEN "KeyError"
    ELSE IF ~RiskLevelOk(clause_data.risk_level) THEN "ValueError"
    ELSE IF clause_data.risk_score.t = "nokey" THEN "KeyError"
    ELSE IF clause_data.explanation = NoKey THEN "KeyError"
    ELSE IF ~IntCoerce(clause_data.risk_score).ok THEN "ValidationError"
    ELSE ""

ClauseOk(clause_data) == ClauseError(clause_data) = ""

ClauseAnalysis(clause_data, uuid) ==
    [id |-> uuid,
     clause_text |-> clause_data.clause_text,
     risk_level |-> clause_data.risk_level,
     risk_score |-> IntCoerce(clause_data.risk_score).v,
     explanation |-> clause_data.explanation,
     section |-> clause_data.section]

(***************************************************************************)
(* The overall risk score: total_risk / len(clauses), round(..., 2)        *)
(***************************************************************************)

\* The significand of a Python float (an IEEE 754 double)
MantissaBits == 53

RECURSIVE BitLen(_)
BitLen(i) == IF i = 0 THEN 0 ELSE 1 + BitLen(i \div 2)

\* k more bits of the binary expansion of r / n (0 <= r < n): what is
\* left, and the last bit written
RECURSIVE DivBits(_, _, _, _)
DivBits(r, n, k, last) ==
    IF k = 0
    THEN [r |-> r, last |-> last]
    ELSE DivBits((2 * r) % n, n, k - 1, IF 2 * r >= n THEN 1 ELSE 0)

\* line 160, total_risk / len(clauses) for total_risk >= len(clauses) > 0:
\* the double nearest the quotient (ties to even) is the quotient (0),
\* above it (1) or below it (-1)
FloatDivDir(total_risk, n) ==
    LET i == total_risk \div n
        st == DivBits(total_risk % n, n, MantissaBits - BitLen(i), i % 2)
    IN  IF st.r = 0 THEN 0
        ELSE IF 2 * st.r > n THEN 1
        ELSE IF 2 * st.r < n THEN -1
        ELSE IF st.last = 1 THEN 1 ELSE -1

\* lines 160 and 170: round(total_risk / len(clauses), 2) in hundredths, 0
\* for no clauses.  round() rounds the double it is given, correctly: where
\* the quotient is not half-way between two hundredths the double lies on
\* the same side of the half as the quotient (it is within 2^-53 of it,
\* and the half is at least 1 / (200 * n) away); where the quotient is
\* half-way, the double decides, and the tie goes to even only when the
\* double is the quotient
OverallRiskScore(total_risk, n) ==
    IF n = 0 THEN 0
    ELSE LET h == (100 * total_risk) \div n
             rem == (100 * total_risk) % n
             dir == FloatDivDir(total_risk, n)
         IN  IF 2 * rem < n THEN h
             ELSE IF 2 * rem > n THEN h + 1
             ELSE IF dir > 0 THEN h + 1
             ELSE IF dir < 0 THEN h
             ELSE IF h % 2 = 0 THEN h ELSE h + 1

(***************************************************************************)
(* analyze_document_with_ai                                                *)
(***************************************************************************)

NoAnalysis ==
    [id |-> 0, document_id |-> 0, filename |-> <<>>, document_type |-> "",
     full_document_text |-> <<>>, clauses |-> <<>>, summary |-> "",
     recommendations |-> <<>>, overall_risk_score |-> 0,
     created_at |-> [sec |-> 0, usec |-> 0]]

\* raise HTTPException(status_code=status, detail=detail + str(e)); exc is
\* the exception e the handler caught ("" when the route raises by itself)
HTTPException(status, detail, exc) ==
    [ok |-> FALSE, status |-> status, detail |-> detail, exc |-> exc,
     analysis |-> NoAnalysis]

\* an exception no handler of the route catches: the framework answers 500
Unhandled(exc) == HTTPException(500, "Internal Server Error", exc)

Returns(analysis) ==
    [ok |-> TRUE, status |-> 200, detail |-> "", exc |-> "",
     analysis |-> analysis]

\* ai_analysis.get("clauses", [])
ClausesOf(doc) == IF doc.has_clauses THEN doc.clauses ELSE <<>>

RECURSIVE TotalRisk(_)
TotalRisk(clauses) ==
    IF clauses = <<>> THEN 0
    ELSE clauses[1].risk_score + TotalRisk(Tail(clauses))

\* lines 145-157: one ClauseAnalysis per entry of the array, in order, each
\* with a fresh uuid
Clauses(array, uuid) ==
    [i \in 1..Len(array) |-> ClauseAnalysis(array[i], uuid + i - 1)]

\* lines 162-171, after the loop
DocumentAnalysis(text, filename, doc, uuid, now) ==
    LET clauses == Clauses(ClausesOf(doc), uuid)
        n == Len(clauses)
    IN  [id |-> uuid + n + 1,
         document_id |-> uuid + n,
         filename |-> filename,
         document_type |-> IF doc.meta THEN "contract" ELSE "unknown",
         full_document_text |-> text,
         clauses |-> clauses,
         summary |-> IF doc.meta THEN "s" ELSE "",
         recommendations |-> IF doc.meta THEN <<"r">> ELSE <<>>,
         overall_risk_score |-> OverallRiskScore(TotalRisk(clauses), n),
         created_at |-> now]

\* The uuids one call draws: one per clause, document_id, id
UuidsDrawn(doc) == Len(ClausesOf(doc)) + 2

\* lines 131-178.  ai.err: send_message raised.  A JSON array has no .get
\* (AttributeError).  Every exception but JSONDecodeError takes the second
\* handler.
AnalyzeDocumentWithAi(text, filename, ai, uuid, now) ==
    IF ai.err
    THEN HTTPException(500, "Error analyzing document", "send_message")
    ELSE LET ai_analysis == JsonLoads(StripFence(ai.raw))
             array == ClausesOf(ai.doc)
             bad == {i \in 1..Len(array) : ~ClauseOk(array[i])}
         IN  IF ai_analysis = "JSONDecodeError"
             THEN HTTPException(500, "Error parsing AI response",
                                "JSONDecodeError")
             ELSE IF ai_analysis = "array"
             THEN HTTPException(500, "Error analyzing document",
                                "AttributeError")
             ELSE IF bad # {}
             THEN HTTPException(500, "Error analyzing document",
                      ClauseError(array[CHOOSE i \in bad : \A j \in bad : i <= j]))
             ELSE Returns(DocumentAnalysis(text, filename, ai.doc, uuid, now))

(***************************************************************************)
(* Calls of analyze_document_with_ai on the answers of the AI service      *)
(***************************************************************************)

\* Entries of a "clauses" array per answer, and of a long array
MaxClauses == 2
MaxLong == 40

TEXT == <<"L">>
FILENAME == <<"a", ".", "t", "x", "t">>
NOW == [sec |-> 1, usec |-> 5]

BaseClause ==
    [clause_text |-> "c", risk_level |-> "low", risk_score |-> Score("int", 2),
     explanation |-> "e", section |-> None]

ScoreValues ==
    {Score("int", v) : v \in {0, 1, 3, 4, 6, 7, 10, 11}}
        \cup {Score("numstr", 7), Score("numstr", 11), Score("text", 0),
              Score("null", 0), Score("nokey", 0)}

\* What the AI may write for one clause
ClauseDatas ==
    {[BaseClause EXCEPT !.risk_level = l, !.risk_score = sc] :
        l \in RiskLevelValues, sc \in ScoreValues}
    \cup {[BaseClause EXCEPT !.risk_level = l] : l \in {"HIGH", "Medium", "severe", NoKey}}
    \cup {[BaseClause EXCEPT !.clause_text = NoKey],
          [BaseClause EXCEPT !.explanation = NoKey],
          [BaseClause EXCEPT !.section = "s"]}

RECURSIVE SeqsUpTo(_, _)
SeqsUpTo(S, n) ==
    IF n = 0 THEN {<<>>}
    ELSE LET shorter == SeqsUpTo(S, n - 1)
         IN  shorter \cup {Append(q, x) : q \in {t \in shorter : Len(t) = n - 1}, x \in S}

\* a entries scored 3, then b entries scored 2
LongArray(a, b) ==
    [i \in 1..(a + b) |->
        [BaseClause EXCEPT !.risk_score = Score("int", IF i <= a THEN 3 ELSE 2)]]

Doc(has_clauses, clauses, meta) ==
    [has_clauses |-> has_clauses, clauses |-> clauses, meta |-> meta]

OBJECT == <<"{", "}">>
ARRAY == <<"[", "]">>
PROSE == <<"n", "o">>

Answer(raw, doc) == [err |-> FALSE, raw |-> raw, doc |-> doc]
ServiceFailure == [err |-> TRUE, raw |-> <<>>, doc |-> Doc(FALSE, <<>>, FALSE)]

\* Answers that are a bare JSON object: every short array, and long ones
ParseInputs ==
    {Answer(OBJECT, Doc(TRUE, cs, TRUE)) : cs \in SeqsUpTo(ClauseDatas, MaxClauses)}
    \cup {Answer(OBJECT, Doc(FALSE, <<>>, m)) : m \in BOOLEAN}
    \cup {Answer(OBJECT, Doc(TRUE, LongArray(a, b), TRUE)) :
            a \in 0..MaxLong, b \in 0..MaxLong}

\* The text around the payload: white space, an opening fence with or
\* without a tag, a closing fence
Frame(pre, lead, tag, nl, payload, trail, post) ==
    [pre |-> pre, lead |-> lead, tag |-> tag, nl |-> nl, payload |-> payload,
     trail |-> trail, post |-> post]

RawOf(f) ==
    f.pre \o f.lead \o f.tag \o f.nl \o f.payload \o f.nl \o f.trail \o f.post

Frames ==
    {Frame(pre, lead, tag, nl, payload, trail, post) :
        pre \in {<<>>, <<"\n">>},
        lead \in {<<>>, FENCE},
        tag \in {<<>>, <<"j", "s", "o", "n">>, <<"j", "s">>},
        nl \in {<<>>, <<"\n">>},
        payload \in {OBJECT, ARRAY, PROSE},
        trail \in {<<>>, FENCE},
        post \in {<<>>, <<" ">>}}

FenceDocs ==
    {Doc(FALSE, <<>>, FALSE),
     Doc(TRUE, <<[BaseClause EXCEPT !.risk_score = Score("int", 9),
                              !.risk_level = "high"]>>, TRUE),
     Doc(TRUE, <<[BaseClause EXCEPT !.risk_score = Score("int", 11)]>>, TRUE)}

FenceInputs ==
    {[frame |-> f, ai |-> Answer(RawOf(f), d)] : f \in Frames, d \in FenceDocs}
    \cup {[frame |-> Frame(<<>>, <<>>, <<>>, <<>>, <<>>, <<>>, <<>>),
           ai |-> ServiceFailure]}

NoFrame == Frame(<<>>, <<>>, <<>>, <<>>, OBJECT, <<>>, <<>>)

(***************************************************************************)
(* Uploads and text extraction                                             *)
(***************************************************************************)

\* An upload's bytes, by what reading them gives: content.decode('utf-8')
\* (utf8: it decodes, to text) and PyPDF2.PdfReader (pdf: it parses, with
\* the extract_text() of each page in pages)
Content(utf8, text, pdf, pages) ==
    [utf8 |-> utf8, text |-> text, pdf |-> pdf, pages |-> pages]

Contents ==
    {Content(TRUE, <<"L">>, FALSE, <<>>),
     Content(TRUE, <<" ", "\n">>, FALSE, <<>>),
     Content(FALSE, <<>>, TRUE, <<<<"L">>, <<>>>>),
     Content(FALSE, <<>>, TRUE, <<<<>>>>),
     Content(FALSE, <<>>, FALSE, <<>>)}

Filenames ==
    {<<>>,
     <<"a", ".", "t", "x", "t">>,
     <<"b", ".", "P", "D", "F">>,
     <<"n", ".", "d", "o", "c", "x">>}

DOT_PDF == <<".", "p", "d", "f">>
DOT_TXT == <<".", "t", "x", "t">>

\* lines 94-96: text += page.extract_text() + "\n", page after page
RECURSIVE JoinPages(_)
JoinPages(pages) ==
    IF pages = <<>> THEN <<>>
    ELSE pages[1] \o <<"\n">> \o JoinPages(Tail(pages))

\* What lines 196-204 do with the bytes read: the text or the exception,
\* and whether the bytes were decoded or parsed on the way (decoded)
Extracted(text) ==
    [ok |-> TRUE, text |-> text, error |-> Returns(NoAnalysis), decoded |-> TRUE]
NotExtracted(error, decoded) ==
    [ok |-> FALSE, text |-> <<>>, error |-> error, decoded |-> decoded]

\* extract_text_from_pdf
ExtractTextFromPdf(content) ==
    IF content.pdf
    THEN Extracted(JoinPages(content.pages))
    ELSE NotExtracted(HTTPException(400, "Error reading PDF", "PdfReadError"),
                      TRUE)

\* content.decode('utf-8')
Decode(content) ==
    IF content.utf8
    THEN Extracted(content.text)
    ELSE NotExtracted(Unhandled("UnicodeDecodeError"), TRUE)

NotBlank(text) ==
    IF text.ok /\ Strip(text.text) = <<>>
    THEN NotExtracted(HTTPException(400, "No text content found", ""), TRUE)
    ELSE text

ExtractTextDecodingFirst(filename, content) ==
    LET decoded == Decode(content)
    IN  NotBlank(
          IF EndsWith(Lower(filename), DOT_PDF)
          THEN ExtractTextFromPdf(content)
          ELSE IF EndsWith(Lower(filename), DOT_TXT)
          THEN decoded
          ELSE NotExtracted(HTTPException(400, "Unsupported file type", ""),
                            TRUE))

\* lines 196-204
ExtractText(filename, content) ==
    NotBlank(
      IF EndsWith(Lower(filename), DOT_PDF)
      THEN ExtractTextFromPdf(content)
      ELSE IF EndsWith(Lower(filename), DOT_TXT)
      THEN Decode(content)
      ELSE NotExtracted(HTTPException(400, "Unsupported file type", ""),
                        FALSE))

(***************************************************************************)
(* The stored documents                                                    *)
(***************************************************************************)

IsoFormatSeconds(created_at) == <<created_at.sec>>

\* datetime.isoformat(): the microseconds are written unless they are 0
IsoFormat(created_at) ==
    IF created_at.usec = 0
    THEN <<created_at.sec>>
    ELSE <<created_at.sec, created_at.usec>>

\* datetime.fromisoformat()
FromIsoFormat(iso) ==
    [sec |-> iso[1], usec |-> IF Len(iso) > 1 THEN iso[2] ELSE 0]

\* lines 210-211: analysis.dict() with created_at as its isoformat()
AnalysisDict(analysis) ==
    [analysis EXCEPT !.created_at = IsoFormat(analysis.created_at)]

\* lines 235-238: DocumentAnalysis(**analysis) with created_at parsed back
LoadAnalysis(analysis_dict) ==
    [analysis_dict EXCEPT !.created_at = FromIsoFormat(analysis_dict.created_at)]

\* The order of two isoformat() strings as strings
IsoLeq(a, b) ==
    \/ a[1] < b[1]
    \/ /\ a[1] = b[1]
       /\ \/ Len(a) = 1
          \/ Len(b) > 1 /\ a[2] <= b[2]

\* .to_list(100)
ListLimit == 100

Min(a, b) == IF a < b THEN a ELSE b

\* find().sort("created_at", -1): the orders of the collection's documents
\* with created_at descending (equal keys in either order)
SortedDesc(docs) ==
    {[i \in 1..Len(docs) |-> docs[f[i]]] :
        f \in {g \in [1..Len(docs) -> 1..Len(docs)] :
                 /\ \A i, j \in 1..Len(docs) : i # j => g[i] # g[j]
                 /\ \A i, j \in 1..Len(docs) :
                      i < j => IsoLeq(docs[g[j]].created_at, docs[g[i]].created_at)}}

\* find_one({"id": analysis_id}) and delete_one({"id": analysis_id}) take
\* the first match
Matches(docs, analysis_id) == {i \in 1..Len(docs) : docs[i].id = analysis_id}

FirstMatch(docs, analysis_id) ==
    CHOOSE i \in Matches(docs, analysis_id) :
        \A j \in Matches(docs, analysis_id) : i <= j

\* lines 230-238: what get_analysis answers on the collection docs
GetAnalysisOut(docs, analysis_id) ==
    IF Matches(docs, analysis_id) = {}
    THEN HTTPException(404, "Analysis not found", "")
    ELSE Returns(LoadAnalysis(docs[FirstMatch(docs, analysis_id)]))

Remove(docs, k) ==
    [i \in 1..(Len(docs) - 1) |-> IF i < k THEN docs[i] ELSE docs[i + 1]]

(***************************************************************************)
(* The routes                                                              *)
(***************************************************************************)

\* uuids the model hands out in all
MaxUuids == 6

\* datetime.now() at the construction of an analysis
Times == {[sec |-> sec, usec |-> usec] : sec \in {1, 2}, usec \in {0, 5}}

\* The answers of the AI service to the requests
AiOutcomes ==
    {ServiceFailure,
     Answer(PROSE, Doc(FALSE, <<>>, FALSE)),
     Answer(OBJECT, Doc(FALSE, <<>>, FALSE)),
     Answer(FENCE_JSON \o <<"\n">> \o OBJECT \o <<"\n">> \o FENCE,
            Doc(TRUE, <<[BaseClause EXCEPT !.risk_score = Score("int", 9),
                                     !.risk_level = "high"]>>, TRUE)),
     Answer(OBJECT,
            Doc(TRUE, <<[BaseClause EXCEPT !.risk_score = Score("int", 11)]>>,
                TRUE))}

\* The most uuids one of these answers makes a request draw
MaxDrawn ==
    CHOOSE n \in {UuidsDrawn(ai.doc) : ai \in AiOutcomes} :
        \A ai \in AiOutcomes : UuidsDrawn(ai.doc) <= n

NoContent == Content(FALSE, <<>>, FALSE, <<>>)

Request(pc, filename, content) ==
    [pc |-> pc, filename |-> filename, content |-> content, read |-> FALSE,
     decoded |-> FALSE, text |-> <<>>, analysis |-> NoAnalysis,
     out |-> Returns(NoAnalysis)]

NoResponse == [op |-> "", id |-> 0, out |-> Returns(NoAnalysis), body |-> <<>>]

Init ==
    /\ store = <<>>
    /\ req = Request("idle", <<>>, NoContent)
    /\ uuids = 0
    /\ resp = NoResponse
    /\ returned = {}
    /\ call = [pc |-> "idle", frame |-> NoFrame, ai |-> ServiceFailure,
               out |-> Returns(NoAnalysis)]
    /\ prev = Returns(NoAnalysis)

\* lines 186-193: a request arrives; without a filename it is refused, else
\* the route awaits file.read()
Receive(filename, content) ==
    /\ req.pc \in {"idle", "done"}
    /\ uuids + MaxDrawn <= MaxUuids
    /\ req' = IF filename = <<>>
              THEN [Request("done", filename, content) EXCEPT
                        !.out = HTTPException(400, "No file uploaded", "")]
              ELSE Request("reading", filename, content)
    /\ UNCHANGED <<store, uuids, resp, returned, call, prev>>

\* lines 193-207: the bytes are read, the text extracted and checked, and
\* the route awaits the AI service
ReadDone ==
    /\ req.pc = "reading"
    /\ LET text == ExtractText(req.filename, req.content)
       IN  req' = IF text.ok
                  THEN [req EXCEPT !.pc = "awaiting", !.read = TRUE,
                                   !.decoded = text.decoded, !.text = text.text]
                  ELSE [req EXCEPT !.pc = "done", !.read = TRUE,
                                   !.decoded = text.decoded, !.out = text.error]
    /\ UNCHANGED <<store, uuids, resp, returned, call, prev>>

ServiceReplyStoringEarly(ai, now) ==
    /\ req.pc = "awaiting"
    /\ LET out == AnalyzeDocumentWithAi(req.text, req.filename, ai, uuids + 1, now)
           partial == DocumentAnalysis(req.text, req.filename,
                                       Doc(FALSE, <<>>, FALSE), uuids + 1, now)
       IN  /\ req' = IF out.ok
                     THEN [req EXCEPT !.pc = "inserting", !.analysis = out.analysis]
                     ELSE [req EXCEPT !.pc = "done", !.out = out]
           /\ uuids' = IF out.ok THEN uuids + UuidsDrawn(ai.doc) ELSE uuids
           /\ store' = IF out.ok THEN store
                       ELSE Append(store, AnalysisDict(partial))
    /\ UNCHANGED <<resp, returned, call, prev>>

\* lines 131-178 and 207-212: the AI service answers (or fails); the route
\* builds the analysis and awaits insert_one, or raises
ServiceReply(ai, now) ==
    /\ req.pc = "awaiting"
    /\ LET out == AnalyzeDocumentWithAi(req.text, req.filename, ai, uuids + 1, now)
       IN  /\ req' = IF out.ok
                     THEN [req EXCEPT !.pc = "inserting", !.analysis = out.analysis]
                     ELSE [req EXCEPT !.pc = "done", !.out = out]
           /\ uuids' = IF out.ok THEN uuids + UuidsDrawn(ai.doc) ELSE uuids
    /\ UNCHANGED <<store, resp, returned, call, prev>>

\* lines 212-214: the document is inserted and the analysis returned
Insert ==
    /\ req.pc = "inserting"
    /\ store' = Append(store, AnalysisDict(req.analysis))
    /\ req' = [req EXCEPT !.pc = "done", !.out = Returns(req.analysis)]
    /\ returned' = returned \cup {req.analysis}
    /\ UNCHANGED <<uuids, resp, call, prev>>

\* get_analyses, lines 216-225
GetAnalyses ==
    /\ \E sorted \in SortedDesc(store) :
         resp' = [op |-> "list", id |-> 0, out |-> Returns(NoAnalysis),
                  body |-> [i \in 1..Min(Len(sorted), ListLimit) |->
                                LoadAnalysis(sorted[i])]]
    /\ UNCHANGED <<store, req, uuids, returned, call, prev>>

\* get_analysis, lines 227-238
GetAnalysis(analysis_id) ==
    /\ resp' = [op |-> "get", id |-> analysis_id, body |-> <<>>,
                out |-> GetAnalysisOut(store, analysis_id)]
    /\ UNCHANGED <<store, req, uuids, returned, call, prev>>

\* delete_analysis, lines 240-248
DeleteAnalysis(analysis_id) ==
    /\ IF Matches(store, analysis_id) = {}
       THEN /\ resp' = [op |-> "delete", id |-> analysis_id, body |-> <<>>,
                        out |-> HTTPException(404, "Analysis not found", "")]
            /\ UNCHANGED <<store, returned>>
       ELSE /\ resp' = [op |-> "delete", id |-> analysis_id, body |-> <<>>,
                        out |-> Returns(NoAnalysis)]
            /\ store' = Remove(store, FirstMatch(store, analysis_id))
            /\ returned' = {a \in returned : a.id # analysis_id}
    /\ UNCHANGED <<req, uuids, call, prev>>

Next ==
    \/ \E filename \in Filenames, content \in Contents : Receive(filename, content)
    \/ ReadDone
    \/ \E ai \in AiOutcomes, now \in Times : ServiceReply(ai, now)
    \/ Insert
    \/ GetAnalyses
    \/ \E analysis_id \in 1..MaxUuids : GetAnalysis(analysis_id)
    \/ \E analysis_id \in 1..MaxUuids : DeleteAnalysis(analysis_id)

Spec == Init /\ [][Next]_vars

(***************************************************************************)
(* analyze_document_with_ai alone, on the answers of ParseInputs and of    *)
(* FenceInputs                                                             *)
(***************************************************************************)

Idle ==
    /\ store = <<>>
    /\ req = Request("idle", <<>>, NoContent)
    /\ uuids = 0
    /\ resp = NoResponse
    /\ returned = {}
    /\ prev = Returns(NoAnalysis)

Call(frame, ai) ==
    [pc |-> "call", frame |-> frame, ai |-> ai, out |-> Returns(NoAnalysis)]

\* The call returns or raises
AnalyzeCall ==
    /\ call.pc = "call"
    /\ call' = [call EXCEPT
                  !.pc = "ret",
                  !.out = AnalyzeDocumentWithAi(TEXT, FILENAME, call.ai, 1, NOW)]
    /\ UNCHANGED <<store, req, uuids, resp, returned, prev>>

\* The next call, on another answer; prev keeps what this one gave
NextCall ==
    /\ call.pc = "ret"
    /\ prev' = call.out
    /\ \E in \in FenceInputs : call' = Call(in.frame, in.ai)
    /\ UNCHANGED <<store, req, uuids, resp, returned>>

InitParse == Idle /\ \E ai \in ParseInputs : call = Call(NoFrame, ai)

NextParse == AnalyzeCall

SpecParse == InitParse /\ [][NextParse]_vars

InitFence == Idle /\ \E in \in FenceInputs : call = Call(in.frame, in.ai)

NextFence == AnalyzeCall \/ NextCall

SpecFence == InitFence /\ [][NextFence]_vars

(***************************************************************************)
(* Properties                                                              *)
(***************************************************************************)

Returned == call.pc = "ret" /\ call.out.ok
Array == ClausesOf(call.ai.doc)
Failed == req.pc = "done" /\ ~req.out.ok

\* C1: a step of an analyze request changes the collection only when it
\* ends the request with success, and then it appends exactly the returned
\* analysis; a step that ends the request with a failure, whatever the
\* stage, leaves the collection as it was.
C1_RecordOnlyWhenFinished ==
    [][/\ (req' # req /\ ~(req.pc = "inserting" /\ req'.pc = "done" /\ req'.out.ok))
            => store' = store
       /\ (req.pc # "done" /\ req'.pc = "done" /\ ~req'.out.ok)
            => store' = store
       /\ (req.pc # "done" /\ req'.pc = "done" /\ req'.out.ok)
            => store' = Append(store, AnalysisDict(req'.out.analysis))]_vars

\* C1: a request has failed on a clause field (risk_score 11) while another
\* request's record is in the collection.
C1_Witness ==
    /\ Failed
    /\ req.out.exc = "ValidationError"
    /\ Len(store) = 1

Unsupported ==
    /\ req.pc = "done"
    /\ req.filename # <<>>
    /\ ~EndsWith(Lower(req.filename), DOT_PDF)
    /\ ~EndsWith(Lower(req.filename), DOT_TXT)

\* C2, as claimed: a request refused for its extension has read no byte of
\* the upload.
C2_RejectedBeforeRead ==
    Unsupported => req.out.detail = "Unsupported file type" /\ ~req.read

\* C2, amended: a request whose filename ends in neither .txt nor .pdf
\* fails with 400 "Unsupported file type" without decoding or parsing the
\* upload's bytes, which it has read.
C2_RejectedBeforeDecoding ==
    Unsupported =>
        /\ ~req.out.ok
        /\ req.out.status = 400
        /\ req.out.detail = "Unsupported file type"
        /\ req.read
        /\ ~req.decoded

\* C2: n.docx, holding bytes that would decode as UTF-8, has been refused.
C2_Witness ==
    /\ Unsupported
    /\ req.filename = <<"n", ".", "d", "o", "c", "x">>
    /\ req.content.utf8
    /\ req.out.status = 400

\* The band of a score in the system message: LOW (1-3), MEDIUM (4-6),
\* HIGH (7-10)
Band(risk_score) ==
    IF risk_score <= 3 THEN "low"
    ELSE IF risk_score <= 6 THEN "medium" ELSE "high"

\* C3: in every clause of a returned analysis the risk_level is the band
\* of the risk_score.
C3_LevelMatchesScore ==
    Returned =>
        \A i \in 1..Len(call.out.analysis.clauses) :
            call.out.analysis.clauses[i].risk_level
                = Band(call.out.analysis.clauses[i].risk_score)

\* "Limit to maximum 10 clauses."
ClauseCap == 10

\* C4: a returned analysis holds at most 10 clauses.
C4_AtMostTenClauses ==
    Returned => Len(call.out.analysis.clauses) <= ClauseCap

\* The JSON value is an integer in 1..10
IntegerInRange(score) ==
    score.t = "int" /\ score.v >= ScoreMin /\ score.v <= ScoreMax

\* The JSON value is an integer in 1..10 or a string of the digits of one
ReadsAsIntegerInRange(score) ==
    score.t \in {"int", "numstr"} /\ score.v >= ScoreMin /\ score.v <= ScoreMax

InRangeUnchanged ==
    Returned =>
        \A i \in 1..Len(call.out.analysis.clauses) :
            /\ call.out.analysis.clauses[i].risk_score \in ScoreMin..ScoreMax
            /\ call.out.analysis.clauses[i].risk_score = Array[i].risk_score.v

RoundHalfEven(total_risk, n) ==
    LET h == (100 * total_risk) \div n
        rem == (100 * total_risk) % n
    IN  IF 2 * rem < n THEN h
        ELSE IF 2 * rem > n THEN h + 1
        ELSE IF h % 2 = 0 THEN h ELSE h + 1

\* C6: the overall_risk_score of a returned analysis is 0 without clauses
\* and else the mean of the scores rounded to two decimals, ties to even.
C6_MeanRoundedHalfEven ==
    Returned =>
        LET clauses == call.out.analysis.clauses
        IN  call.out.analysis.overall_risk_score
                = IF clauses = <<>> THEN 0
                  ELSE RoundHalfEven(TotalRisk(clauses), Len(clauses))

\* The text is a payload between an opening fence, with or without a
\* language tag on its line, and a closing fence
Fenced(f) ==
    /\ f.lead = FENCE
    /\ f.trail = FENCE
    /\ f.tag = <<>> \/ f.nl # <<>>

\* C7: a JSON object between an opening fence, with or without a language
\* tag, and a closing fence gives what the object alone gives, the
\* stripping leaving exactly the object.
C7_FenceStrippedOnly ==
    (call.pc = "ret" /\ Fenced(call.frame) /\ call.frame.payload = OBJECT) =>
        /\ Strip(StripFence(call.ai.raw)) = call.frame.payload
        /\ call.out = AnalyzeDocumentWithAi(
                TEXT, FILENAME, Answer(call.frame.payload, call.ai.doc), 1, NOW)

\* The failure kinds of the taxonomy, by the exception behind a failure
Cause(exc) ==
    CASE exc = "send_message" -> "ServiceError"
      [] exc = "JSONDecodeError" -> "MalformedResponse"
      [] exc \in {"KeyError", "ValueError", "ValidationError"} -> "SchemaViolation"
      [] OTHER -> "other"

\* What the caller is told
Kind(out) == <<out.status, out.detail>>

\* C8: two calls that failed for different causes among the AI call
\* itself, text that is no JSON, and a clause field, told their callers
\* different kinds.
C8_KindsDistinct ==
    (call.pc = "ret" /\ ~call.out.ok /\ ~prev.ok
        /\ Cause(call.out.exc) # "other" /\ Cause(prev.exc) # "other"
        /\ Cause(call.out.exc) # Cause(prev.exc))
    => Kind(call.out) # Kind(prev)

LowerLevel(value) ==
    CASE value \in {"HIGH", "high"} -> "high"
      [] value \in {"Medium", "medium"} -> "medium"
      [] value = "low" -> "low"
      [] OTHER -> value

\* C9: an answer whose clauses are in order but for the letter case of
\* their risk_level is taken, with the levels in lower case; the levels of
\* a returned analysis are low, medium or high.
C9_LevelAnyCase ==
    /\ (call.pc = "ret"
        /\ \A i \in 1..Len(Array) :
              ClauseOk([Array[i] EXCEPT !.risk_level = LowerLevel(@)]))
        => /\ call.out.ok
           /\ \A i \in 1..Len(Array) :
                call.out.analysis.clauses[i].risk_level
                    = LowerLevel(Array[i].risk_level)
    /\ Returned =>
        \A i \in 1..Len(call.out.analysis.clauses) :
            call.out.analysis.clauses[i].risk_level \in RiskLevelValues

\* C10: get_analysis on the id of a returned analysis that no delete has
\* removed answers that analysis, field for field, and on any other id
\* answers 404; a stored document stays as it is until delete_analysis
\* removes it; get_analyses and get_analysis never change the collection,
\* nor does a delete_analysis that answers 404.
C10_StoredAsReturned ==
    /\ [](\A a \in returned : GetAnalysisOut(store, a.id) = Returns(a))
    /\ [](\A id \in 1..MaxUuids :
            (\A a \in returned : a.id # id)
                => GetAnalysisOut(store, id).status = 404)
    /\ [][/\ \A i \in 1..Len(store) :
                \/ \E j \in 1..Len(store') : store'[j] = store[i]
                \/ /\ resp'.op = "delete"
                   /\ resp'.id = store[i].id
                   /\ resp'.out.ok
          /\ (resp' # resp /\ resp'.op \in {"get", "list"}) => store' = store
          /\ (resp' # resp /\ resp'.op = "delete" /\ ~resp'.out.ok)
                => resp'.out.status = 404 /\ store' = store]_vars

\* C10: get_analysis has answered an analysis with a clause and with
\* microseconds in created_at, while two documents are stored.
C10_Witness ==
    /\ resp.op = "get"
    /\ resp.out.ok
    /\ resp.out.analysis \in returned
    /\ resp.out.analysis.created_at.usec # 0
    /\ resp.out.analysis.clauses # <<>>
    /\ Len(store) = 2

====
